---- MODULE Spec2Model ----
(***************************************************************************)
(* Model of lightyear's transport core: the Io facade (transport/io.rs)    *)
(* wrapping the WebSocket server transport (transport/websocket/server.rs).*)
(*                                                                         *)
(* Processes: the consumer (the single simulation thread calling the Io    *)
(* facade), the listener task, one clientbound (outbound) and one          *)
(* serverbound (inbound) task per accepted connection, and the remote      *)
(* peers (environment).                                                    *)
(***************************************************************************)
EXTENDS Integers, Sequences, FiniteSets, TLC

\* ---------------------------------------------------------------- bounds
\* Size of the receiver's buffer, [u8; MTU].  The crate's value is larger;
\* the model is parametric in it and uses a small one.
MTU == 2
\* Each specification bounds the run by a budget: the calls the consumer thread
\* makes on the facade, the TCP connections the peers open, and the websocket
\* frames (or stream errors) the peers produce.
TrafficCalls == 3
TrafficConns == 1
TrafficFrames == 1
PeersCalls == 2
PeersConns == 2
PeersFrames == 1
CloseCalls == 3
CloseConns == 1
CloseFrames == 1
SplitCalls == 2
SplitConns == 1
SplitFrames == 1
DiagCalls == 3
DiagConns == 1
DiagFrames == 1
InboundCalls == 2
InboundConns == 1
InboundFrames == 2
LockCalls == 2
LockConns == 1
LockFrames == 1

\* Peer addresses (SocketAddr).
Addrs == {"A", "B"}
NoAddr == "-"

\* ---------------------------------------------------------------- data
RECURSIVE Iota(_)
\* The payload <<1, 2, ..., n>>.
Iota(n) == IF n = 0 THEN << >> ELSE Append(Iota(n - 1), n)

\* Payloads the consumer hands to send (length <= MTU, as the producer validates).
SendPayloads == {Iota(1), Iota(MTU)}

Binary(buf) == [kind |-> "Binary", data |-> buf]
Close == [kind |-> "Close", data |-> << >>]
Text == [kind |-> "Text", data |-> << >>]
\* a stream error yielded by read.next()
ReadErr == [kind |-> "Err", data |-> << >>]

\* What a peer can put on its socket: binary frames (one of them longer than
\* MTU: the peer is not bound by the producer's validation), a close frame,
\* another kind of frame.
PeerFrames == {Binary(Iota(1)), Binary(Iota(MTU + 1)), Close, Text}

VARIABLES
    state,                  \* Io.state : IoState
    close_fn,               \* Io.close_fn : Option<BoxedCloseFn>
    stats,                  \* Io.stats : IoStats
    buffer,                 \* WebSocketServerSocketReceiver.buffer : [u8; MTU]
    addr_to_clientbound_tx, \* ClientBoundTxMap: address -> connection whose channel the tx feeds
    serverbound_rx,         \* the shared inbound channel: queue of <<addr, msg>>
    listener,               \* the listener task: its position and current connection
    conns,                  \* per connection: socket, channel and the two tasks
    diagnostics,            \* measurements recorded by update_diagnostics
    ret,                    \* what the consumer's last call returned
    nCalls,                 \* number of calls the consumer has made
    hist,                   \* history: what the consumer's calls add up to
    budget,                 \* the bounds of this run: [calls, conns, frames]
    mutex                   \* who holds the lock of the ClientBoundTxMap: none, listener, consumer

vars == <<state, close_fn, stats, buffer, addr_to_clientbound_tx, serverbound_rx,
          listener, conns, diagnostics, ret, nCalls, hist, budget, mutex>>

transportVars == <<addr_to_clientbound_tx, serverbound_rx, listener, conns>>

\* ---------------------------------------------------------------- IoStats
\* IoStats::default()
IoStatsDefault ==
    [bytes_sent |-> 0, bytes_received |-> 0, packets_sent |-> 0, packets_received |-> 0]

\* Io::send that forgets to count the packet
StatsOnSend_NoPacketCount(s, payload) ==
    [s EXCEPT !.bytes_sent = @ + Len(payload)]

\* the stats lines of Io::send
StatsOnSend(s, payload) ==
    [s EXCEPT !.bytes_sent = @ + Len(payload), !.packets_sent = @ + 1]

\* the stats lines of Io::recv, applied when the transport returned Some
StatsOnRecv(s, buf) ==
    [s EXCEPT !.bytes_received = @ + Len(buf), !.packets_received = @ + 1]

\* ---------------------------------------------------------------- channels and tasks
\* A connection as the listener sees it once the peer has opened it.
NewConn(a) ==
    [addr |-> a,
     stream |-> "open",             \* the peer's end: open | closed
     read |-> << >>,                \* frames the peer sent, not yet read by the inbound task
     ended |-> FALSE,               \* the websocket stream has yielded an error
     write |-> << >>,               \* messages the outbound task wrote to the socket
     clientbound_rx |-> << >>,      \* the peer's private outbound channel
     clientbound_handle |-> "none", \* outbound task
     serverbound_handle |-> "none", \* inbound task
     sent |-> << >>,                \* history: messages send() enqueued for this connection
     frames |-> << >>]              \* history: frames and errors the peer produced

\* A task's future still exists (it owns what it captured).
FutureAlive(t) == t \in {"running", "cancelled"}

\* The receiving end of connection i's outbound channel has not been dropped:
\* the listener holds it until it spawns the outbound task, then the task's future does.
RxAlive(i) ==
    \/ listener.id = i /\ listener.pc = "spawn"
    \/ FutureAlive(conns[i].clientbound_handle)

\* a channel whose sender does not notice that the receiving end is gone
TxSend_IgnoreClosed(i) == "Ok"

\* clientbound_tx.send(msg).map_err(..): an error once the receiving end has been dropped
TxSend(i) == IF RxAlive(i) THEN "Ok" ELSE "Err"

\* Some UnboundedSender of connection i's outbound channel exists (it lives in the map).
TxAlive(i) ==
    \E a \in DOMAIN addr_to_clientbound_tx : addr_to_clientbound_tx[a] = i

ListenerAlive == listener.pc \notin {"done", "panicked"}

\* Some sender of the shared inbound channel exists: the listener's serverbound_tx
\* or the clone an inbound task captured.
ServerboundTxAlive ==
    \/ ListenerAlive
    \/ \E i \in 1..Len(conns) : FutureAlive(conns[i].serverbound_handle)

\* dropping a task handle cancels the task
Cancel(t) == IF t = "running" THEN "cancelled" ELSE t

\* f without the key k (HashMap::remove)
MapRemove(f, k) == [x \in DOMAIN f \ {k} |-> f[x]]
\* f with k mapped to v (HashMap::insert)
MapInsert(f, k, v) == [x \in DOMAIN f \cup {k} |-> IF x = k THEN v ELSE f[x]]

\* ---------------------------------------------------------------- transport: sender
\* send that reports a missing channel as an error (the branch the source comments out)
WsSendResult_AbsentErr(payload, address) ==
    IF address \in DOMAIN addr_to_clientbound_tx
    THEN TxSend(addr_to_clientbound_tx[address])
    ELSE "Err"

\* WebSocketServerSocketSender::send: the result and the connection states after it.
WsSendResult(payload, address) ==
    IF address \in DOMAIN addr_to_clientbound_tx
    THEN TxSend(addr_to_clientbound_tx[address])
    ELSE "Ok"

\* a channel that hands out the newest message first
Enqueue_Front(q, msg) == <<msg>> \o q

\* UnboundedSender::send on an open channel: the message goes to the back of the queue.
Enqueue(q, msg) == Append(q, msg)

WsSendConns(payload, address) ==
    IF address \in DOMAIN addr_to_clientbound_tx /\ RxAlive(addr_to_clientbound_tx[address])
    THEN LET i == addr_to_clientbound_tx[address] IN
         [conns EXCEPT ![i].clientbound_rx = Enqueue(@, Binary(payload)),
                       ![i].sent = Append(@, Binary(payload))]
    ELSE conns

\* ---------------------------------------------------------------- transport: receiver
\* self.buffer[..buf.len()].copy_from_slice(&buf)
CopyFromSlice(b, buf) ==
    [k \in 1..Len(b) |-> IF k <= Len(buf) THEN buf[k] ELSE b[k]]

\* recv that returns the whole buffer instead of the copied prefix
Slice_Whole(b, n) == b

\* &mut self.buffer[..n]
Slice(b, n) == SubSeq(b, 1, n)

\* recv that reports every TryRecvError, also Empty, as an error
WsRecv_EmptyIsError ==
    IF serverbound_rx # << >>
    THEN LET addr == Head(serverbound_rx)[1]
             msg  == Head(serverbound_rx)[2]
             rest == Tail(serverbound_rx)
         IN IF msg.kind = "Binary"
            THEN IF Len(msg.data) > Len(buffer)
                 THEN [res |-> "panic", data |-> << >>, addr |-> NoAddr,
                       buffer |-> buffer, queue |-> rest]
                 ELSE LET b == CopyFromSlice(buffer, msg.data) IN
                      [res |-> "Some", data |-> SubSeq(b, 1, Len(msg.data)), addr |-> addr,
                       buffer |-> b, queue |-> rest]
            ELSE [res |-> "None", data |-> << >>, addr |-> NoAddr,
                  buffer |-> buffer, queue |-> rest]
    ELSE [res |-> "Err", data |-> << >>, addr |-> NoAddr,
          buffer |-> buffer, queue |-> serverbound_rx]

\* WebSocketServerSocketReceiver::recv: [res, data, addr, buffer, queue]
WsRecv ==
    IF serverbound_rx # << >>
    THEN LET addr == Head(serverbound_rx)[1]
             msg  == Head(serverbound_rx)[2]
             rest == Tail(serverbound_rx)
         IN IF msg.kind = "Binary"
            THEN IF Len(msg.data) > Len(buffer)
                 THEN \* slice index out of range
                      [res |-> "panic", data |-> << >>, addr |-> NoAddr,
                       buffer |-> buffer, queue |-> rest]
                 ELSE LET b == CopyFromSlice(buffer, msg.data) IN
                      [res |-> "Some", data |-> Slice(b, Len(msg.data)), addr |-> addr,
                       buffer |-> b, queue |-> rest]
            ELSE [res |-> "None", data |-> << >>, addr |-> NoAddr,
                  buffer |-> buffer, queue |-> rest]
    ELSE IF ServerboundTxAlive
         THEN \* TryRecvError::Empty
              [res |-> "None", data |-> << >>, addr |-> NoAddr,
               buffer |-> buffer, queue |-> serverbound_rx]
         ELSE \* TryRecvError::Disconnected
              [res |-> "Err", data |-> << >>, addr |-> NoAddr,
               buffer |-> buffer, queue |-> serverbound_rx]

\* ---------------------------------------------------------------- initial state
Ret(op, res, data, addr) == [op |-> op, res |-> res, data |-> data, addr |-> addr]

\* The Io right after it was built around the transport that
\* WebSocketServerSocketBuilder::connect returned: listener task spawned and
\* waiting in accept, no peer yet, zeroed stats and buffer.  The Io's fields are
\* filled in by the crate: the connection state it starts in and the close
\* callback it was given are inputs.
InitIo(states, close_fns, calls, nconns, frames) ==
    /\ state \in states
    /\ close_fn \in close_fns
    /\ budget = [calls |-> calls, conns |-> nconns, frames |-> frames]
    /\ mutex = "none"
    /\ stats = IoStatsDefault
    /\ buffer = [k \in 1..MTU |-> 0]
    /\ addr_to_clientbound_tx = [a \in {} |-> 0]
    /\ serverbound_rx = << >>
    /\ listener = [pc |-> "accept", id |-> 0, accepted |-> 0]
    /\ conns = << >>
    /\ diagnostics = << >>
    /\ ret = Ret("none", "Ok", << >>, NoAddr)
    /\ nCalls = 0
    /\ hist = [sends |-> 0, bytes_sent |-> 0, recvs |-> 0, bytes_received |-> 0,
               view_sends |-> 0, view_bytes_sent |-> 0,
               view_recvs |-> 0, view_bytes_received |-> 0,
               closes |-> 0, close_fn_calls |-> 0, supplied |-> close_fn]

\* ---------------------------------------------------------------- the consumer
\* The consumer thread is running (a panic in a call unwinds it) and has calls left.
CanCall == ret.res # "panic" /\ nCalls < budget.calls

\* What Io::send does apart from taking and releasing the map's lock.
SendStep(payload, address) ==
    /\ CanCall
    /\ stats' = StatsOnSend(stats, payload)
    /\ conns' = WsSendConns(payload, address)
    /\ ret' = Ret("send", WsSendResult(payload, address), payload, address)
    /\ nCalls' = nCalls + 1
    /\ hist' = [hist EXCEPT !.sends = @ + 1, !.bytes_sent = @ + Len(payload)]
    /\ UNCHANGED <<state, close_fn, buffer, addr_to_clientbound_tx, serverbound_rx,
                   listener, diagnostics, budget>>

\* Io::send (impl PacketSender for Io): the lock is taken, used and released
\* within the call.
IoSend(payload, address) ==
    /\ SendStep(payload, address)
    /\ UNCHANGED mutex

\* Io::recv (impl PacketReceiver for Io)
IoRecv ==
    /\ CanCall
    /\ LET r == WsRecv IN
        /\ serverbound_rx' = r.queue
        /\ buffer' = r.buffer
        /\ stats' = IF r.res = "Some" THEN StatsOnRecv(stats, r.data) ELSE stats
        /\ ret' = Ret("recv", r.res, r.data, r.addr)
        /\ hist' = IF r.res = "Some"
                   THEN [hist EXCEPT !.recvs = @ + 1, !.bytes_received = @ + Len(r.data)]
                   ELSE hist
    /\ nCalls' = nCalls + 1
    /\ UNCHANGED <<state, close_fn, addr_to_clientbound_tx, listener, conns, diagnostics, budget, mutex>>

\* Io::split, then send on the returned sender view (&mut self.sender)
SplitSend(payload, address) ==
    /\ CanCall
    /\ conns' = WsSendConns(payload, address)
    /\ ret' = Ret("split_send", WsSendResult(payload, address), payload, address)
    /\ nCalls' = nCalls + 1
    /\ hist' = [hist EXCEPT !.view_sends = @ + 1, !.view_bytes_sent = @ + Len(payload)]
    /\ UNCHANGED <<state, close_fn, stats, buffer, addr_to_clientbound_tx, serverbound_rx,
                   listener, diagnostics, budget, mutex>>

\* Io::split, then recv on the returned receiver view (&mut self.receiver)
SplitRecv ==
    /\ CanCall
    /\ LET r == WsRecv IN
        /\ serverbound_rx' = r.queue
        /\ buffer' = r.buffer
        /\ ret' = Ret("split_recv", r.res, r.data, r.addr)
        /\ hist' = IF r.res = "Some"
                   THEN [hist EXCEPT !.view_recvs = @ + 1,
                                     !.view_bytes_received = @ + Len(r.data)]
                   ELSE hist
    /\ nCalls' = nCalls + 1
    /\ UNCHANGED <<state, close_fn, stats, addr_to_clientbound_tx, listener, conns,
                   diagnostics, budget, mutex>>

\* close that reads the callback without taking it out of the field
TakeCloseFn_Keep(f) == f

\* std::mem::take(&mut self.close_fn): what is left in the field
TakeCloseFn(f) == "None"

\* a close that reopens an Io that was already disconnected
StateOnClose_Reopen(s) == IF s = "Disconnected" THEN "Connected" ELSE "Disconnected"

\* self.state = IoState::Disconnected
StateOnClose(s) == "Disconnected"

\* Io::close
IoClose ==
    /\ CanCall
    /\ state' = StateOnClose(state)
    /\ close_fn' = TakeCloseFn(close_fn)
    /\ ret' = Ret("close", IF close_fn = "SomeErr" THEN "Err" ELSE "Ok", << >>, NoAddr)
    /\ nCalls' = nCalls + 1
    /\ hist' = [hist EXCEPT !.closes = @ + 1,
                            !.close_fn_calls = IF close_fn # "None" THEN @ + 1 ELSE @]
    /\ UNCHANGED <<stats, buffer, diagnostics, transportVars, budget, mutex>>

\* The four measurements of one sample, each as <<numerator, denominator>>.
Measurements(s, delta_seconds) ==
    [bytes_in    |-> <<s.bytes_received, 1000 * delta_seconds>>,
     bytes_out   |-> <<s.bytes_sent, 1000 * delta_seconds>>,
     packets_in  |-> <<s.packets_received, delta_seconds>>,
     packets_out |-> <<s.packets_sent, delta_seconds>>]

\* a sampler that forgets to reset the counters
StatsAfterSample_Keep(s) == s

\* *stats = IoStats::default()
StatsAfterSample(s) == IoStatsDefault

\* a sampler without the guard against zero elapsed time
SkipSample_Never(delta_seconds) == FALSE

\* if delta_seconds == 0.0 { return; }
SkipSample(delta_seconds) == delta_seconds = 0

\* IoDiagnosticsPlugin::update_diagnostics
UpdateDiagnostics(delta_seconds) ==
    /\ CanCall
    /\ IF SkipSample(delta_seconds)
       THEN UNCHANGED <<stats, diagnostics, hist>>
       ELSE /\ diagnostics' = Append(diagnostics, Measurements(stats, delta_seconds))
            /\ stats' = StatsAfterSample(stats)
            /\ hist' = [hist EXCEPT !.sends = 0, !.bytes_sent = 0,
                                    !.recvs = 0, !.bytes_received = 0]
    /\ ret' = Ret("update_diagnostics", "Ok", <<delta_seconds>>, NoAddr)
    /\ nCalls' = nCalls + 1
    /\ UNCHANGED <<state, close_fn, buffer, transportVars, budget, mutex>>

\* ---------------------------------------------------------------- the peers (environment)
\* Frames and stream errors the peers have produced so far.
RECURSIVE FramesProduced(_)
FramesProduced(i) ==
    IF i = 0 THEN 0
    ELSE FramesProduced(i - 1) + Len(conns[i].frames)

\* The websocket handshake of connection i has completed.
Upgraded(i) ==
    \/ i < listener.id
    \/ i = listener.id /\ listener.pc \notin {"handshake"}

\* A peer opens a TCP connection to the listener's address; the connection waits
\* in the listener's backlog.  An address has one live connection at a time.
PeerConnect(a) ==
    /\ Len(conns) < budget.conns
    /\ \A i \in 1..Len(conns) : conns[i].addr = a => conns[i].stream = "closed"
    /\ conns' = Append(conns, NewConn(a))
    /\ UNCHANGED <<state, close_fn, stats, buffer, addr_to_clientbound_tx, serverbound_rx,
                   listener, diagnostics, ret, nCalls, hist, budget, mutex>>

\* A peer whose handshake completed sends a frame.
PeerSend(i, frame) ==
    /\ conns[i].stream = "open"
    /\ Upgraded(i)
    /\ FramesProduced(Len(conns)) < budget.frames
    /\ conns' = [conns EXCEPT ![i].read = Append(@, frame),
                              ![i].frames = Append(@, frame)]
    /\ UNCHANGED <<state, close_fn, stats, buffer, addr_to_clientbound_tx, serverbound_rx,
                   listener, diagnostics, ret, nCalls, hist, budget, mutex>>

\* A peer's end of the connection goes away: closed cleanly (the stream then
\* ends), or reset (the stream then yields an error before it ends).
PeerClose(i, clean) ==
    /\ conns[i].stream = "open"
    /\ clean \/ (Upgraded(i) /\ FramesProduced(Len(conns)) < budget.frames)
    /\ conns' = [conns EXCEPT ![i].stream = "closed",
                              ![i].read = IF clean THEN @ ELSE Append(@, ReadErr),
                              ![i].frames = IF clean THEN @ ELSE Append(@, ReadErr)]
    /\ UNCHANGED <<state, close_fn, stats, buffer, addr_to_clientbound_tx, serverbound_rx,
                   listener, diagnostics, ret, nCalls, hist, budget, mutex>>

\* ---------------------------------------------------------------- the listener task
\* while let Ok((stream, addr)) = listener.accept().await: the next connection
\* of the backlog, or an accept error, which ends the loop and the task.
ListenerAccept(ok) ==
    /\ listener.pc = "accept"
    /\ IF ok
       THEN /\ listener.accepted < Len(conns)
            /\ listener' = [pc |-> "handshake", id |-> listener.accepted + 1,
                            accepted |-> listener.accepted + 1]
       ELSE listener' = [listener EXCEPT !.pc = "done"]
    /\ UNCHANGED <<state, close_fn, stats, buffer, addr_to_clientbound_tx, serverbound_rx,
                   conns, diagnostics, ret, nCalls, hist, budget, mutex>>

\* a listener that gives up the connection and goes on to the next accept
HandshakeFailed_Continue == "accept"

\* .expect("failed to accept websocket connection") on a failed upgrade
\* panics inside the listener task.
HandshakeFailed == "panicked"

\* tokio_tungstenite::accept_async(stream).await.expect(..): the upgrade
\* succeeds only with the peer still there; a failure panics the task.
ListenerHandshake(ok) ==
    /\ listener.pc = "handshake"
    /\ ok => conns[listener.id].stream = "open"
    /\ listener' = [listener EXCEPT !.pc = IF ok THEN "insert" ELSE HandshakeFailed]
    /\ UNCHANGED <<state, close_fn, stats, buffer, addr_to_clientbound_tx, serverbound_rx,
                   conns, diagnostics, ret, nCalls, hist, budget, mutex>>

\* unbounded_channel(), ws_stream.split(), clientbound_tx_map.lock().unwrap().insert(addr, clientbound_tx)
InsertStep ==
    /\ listener.pc = "insert"
    /\ addr_to_clientbound_tx' =
           MapInsert(addr_to_clientbound_tx, conns[listener.id].addr, listener.id)
    /\ listener' = [listener EXCEPT !.pc = "spawn"]
    /\ UNCHANGED <<state, close_fn, stats, buffer, serverbound_rx,
                   conns, diagnostics, ret, nCalls, hist, budget>>

\* the insert with its lock taken and released in the same step
ListenerInsert ==
    /\ InsertStep
    /\ UNCHANGED mutex

\* a listener that detaches the two tasks and goes straight back to accept
AfterSpawn_Detached == "accept"

\* After spawning the pair the listener stays in this iteration of the accept
\* loop: its next statement is the await of future::race over the two handles.
AfterSpawn == "race"

\* the two IoTaskPool::get().spawn(..) of the connection
ListenerSpawn ==
    /\ listener.pc = "spawn"
    /\ conns' = [conns EXCEPT ![listener.id].clientbound_handle = "running",
                              ![listener.id].serverbound_handle = "running"]
    /\ listener' = [listener EXCEPT !.pc = AfterSpawn]
    /\ UNCHANGED <<state, close_fn, stats, buffer, addr_to_clientbound_tx, serverbound_rx,
                   diagnostics, ret, nCalls, hist, budget, mutex>>

\* A task has ended: awaiting its handle yields its output.
Finished(t) == t = "done"

\* future::race(clientbound_handle, serverbound_handle).await resumes once a
\* task has ended.  It polls the outbound handle first; awaiting a task that
\* panicked panics the awaiting task.  Both handles are dropped with the race,
\* which cancels the task still running; a panic also drops the listener's future.
ListenerRace ==
    /\ listener.pc = "race"
    /\ LET c == conns[listener.id] IN
        /\ \/ c.clientbound_handle = "panicked"
           \/ Finished(c.clientbound_handle)
           \/ Finished(c.serverbound_handle)
        /\ conns' = [conns EXCEPT ![listener.id].clientbound_handle = Cancel(@),
                                  ![listener.id].serverbound_handle = Cancel(@)]
        /\ listener' = [listener EXCEPT
               !.pc = IF c.clientbound_handle = "panicked" THEN "panicked" ELSE "remove"]
    /\ UNCHANGED <<state, close_fn, stats, buffer, addr_to_clientbound_tx, serverbound_rx,
                   diagnostics, ret, nCalls, hist, budget, mutex>>

\* clientbound_tx_map.lock().unwrap().remove(&addr), then the next iteration
RemoveStep ==
    /\ listener.pc = "remove"
    /\ addr_to_clientbound_tx' = MapRemove(addr_to_clientbound_tx, conns[listener.id].addr)
    /\ listener' = [listener EXCEPT !.pc = "accept"]
    /\ UNCHANGED <<state, close_fn, stats, buffer, serverbound_rx,
                   conns, diagnostics, ret, nCalls, hist, budget>>

\* the remove with its lock taken and released in the same step
ListenerRemove ==
    /\ RemoveStep
    /\ UNCHANGED mutex

\* ---------------------------------------------------------------- the map's lock, step by step
\* a guard bound to a name that lives on after the statement
GuardAfter_Held(holder) == holder

\* The MutexGuard that lock().unwrap() returns is a temporary: it is dropped at
\* the end of the statement that used it, which releases the lock.
GuardAfter(holder) == "none"

\* clientbound_tx_map.lock() in the listener, before the insert or the remove:
\* returns once nobody holds the lock.
ListenerLock ==
    /\ listener.pc \in {"insert", "remove"}
    /\ mutex = "none"
    /\ mutex' = "listener"
    /\ UNCHANGED <<state, close_fn, stats, buffer, addr_to_clientbound_tx, serverbound_rx,
                   listener, conns, diagnostics, ret, nCalls, hist, budget>>

\* .insert(addr, clientbound_tx) under the lock
ListenerInsertLocked ==
    /\ mutex = "listener"
    /\ InsertStep
    /\ mutex' = GuardAfter(mutex)

\* .remove(&addr) under the lock
ListenerRemoveLocked ==
    /\ mutex = "listener"
    /\ RemoveStep
    /\ mutex' = GuardAfter(mutex)

\* self.addr_to_clientbound_tx.lock() in the consumer's send
SendLock ==
    /\ CanCall
    /\ mutex = "none"
    /\ mutex' = "consumer"
    /\ UNCHANGED <<state, close_fn, stats, buffer, addr_to_clientbound_tx, serverbound_rx,
                   listener, conns, diagnostics, ret, nCalls, hist, budget>>

\* .get(address) and the enqueue under the lock
SendLocked(payload, address) ==
    /\ mutex = "consumer"
    /\ SendStep(payload, address)
    /\ mutex' = GuardAfter(mutex)

\* ---------------------------------------------------------------- the per-peer tasks
\* UnboundedReceiver::recv yields the message at the front of the queue.
Dequeue(q) == [msg |-> Head(q), rest |-> Tail(q)]

\* The outbound task: while let Some(msg) = clientbound_rx.recv().await
\* { write.send(msg).await.map_err(..).unwrap() }; write.close().await.
\* A write to a socket whose peer is gone may still succeed or fail (ok).
ClientboundTask(i, ok) ==
    /\ conns[i].clientbound_handle = "running"
    /\ IF conns[i].clientbound_rx # << >>
       THEN LET d == Dequeue(conns[i].clientbound_rx) IN
            /\ ~ok => conns[i].stream = "closed"
            /\ conns' = IF ok
                        THEN [conns EXCEPT ![i].clientbound_rx = d.rest,
                                           ![i].write = Append(@, d.msg)]
                        ELSE [conns EXCEPT ![i].clientbound_rx = << >>,
                                           ![i].clientbound_handle = "panicked"]
       ELSE /\ ok
            /\ ~TxAlive(i)
            /\ conns' = [conns EXCEPT ![i].clientbound_handle = "done"]
    /\ UNCHANGED <<state, close_fn, stats, buffer, addr_to_clientbound_tx, serverbound_rx,
                   listener, diagnostics, ret, nCalls, hist, budget, mutex>>

\* a websocket stream that keeps yielding what arrives after it yielded an error
NextItem_NotFused(c) ==
    IF c.read # << >> THEN "Some"
    ELSE IF c.stream = "closed" THEN "None" ELSE "Pending"

\* read.next().await on connection c: Some(item) with the item at the front
\* of what has arrived, None at the end of the stream, or pending.  The
\* websocket stream is fused: once it has yielded an error it yields None.
NextItem(c) ==
    IF c.ended THEN "None"
    ELSE IF c.read # << >> THEN "Some"
    ELSE IF c.stream = "closed" THEN "None" ELSE "Pending"

\* The inbound task: while let Some(msg) = read.next().await { match msg
\* { Ok(msg) => serverbound_tx.send((addr, msg)), Err(e) => log } }.
ServerboundTask(i) ==
    /\ conns[i].serverbound_handle = "running"
    /\ NextItem(conns[i]) # "Pending"
    /\ IF NextItem(conns[i]) = "Some"
       THEN LET msg == Head(conns[i].read) IN
            /\ conns' = [conns EXCEPT ![i].read = Tail(@),
                                      ![i].ended = (msg.kind = "Err")]
            /\ serverbound_rx' = IF msg.kind = "Err"
                                 THEN serverbound_rx
                                 ELSE Append(serverbound_rx, <<conns[i].addr, msg>>)
       ELSE /\ conns' = [conns EXCEPT ![i].serverbound_handle = "done"]
            /\ UNCHANGED serverbound_rx
    /\ UNCHANGED <<state, close_fn, stats, buffer, addr_to_clientbound_tx,
                   listener, diagnostics, ret, nCalls, hist, budget, mutex>>

\* The executor drops the future of a cancelled task, and with it what the
\* future owns (the outbound task's clientbound_rx, the inbound task's serverbound_tx).
DropCancelled(i) ==
    /\ \/ conns[i].clientbound_handle = "cancelled"
       \/ conns[i].serverbound_handle = "cancelled"
    /\ \E t \in {"clientbound_handle", "serverbound_handle"} :
        /\ conns[i][t] = "cancelled"
        /\ conns' = IF t = "clientbound_handle"
                    THEN [conns EXCEPT ![i].clientbound_handle = "dropped",
                                       ![i].clientbound_rx = << >>]
                    ELSE [conns EXCEPT ![i].serverbound_handle = "dropped"]
    /\ UNCHANGED <<state, close_fn, stats, buffer, addr_to_clientbound_tx, serverbound_rx,
                   listener, diagnostics, ret, nCalls, hist, budget, mutex>>

\* ---------------------------------------------------------------- specifications
Peers ==
    \/ \E a \in Addrs : PeerConnect(a)
    \/ \E i \in 1..Len(conns), f \in PeerFrames : PeerSend(i, f)
    \/ \E i \in 1..Len(conns), clean \in BOOLEAN : PeerClose(i, clean)

Listener ==
    \/ \E ok \in BOOLEAN : ListenerAccept(ok)
    \/ \E ok \in BOOLEAN : ListenerHandshake(ok)
    \/ ListenerInsert
    \/ ListenerSpawn
    \/ ListenerRace
    \/ ListenerRemove

Tasks ==
    \/ \E i \in 1..Len(conns), ok \in BOOLEAN : ClientboundTask(i, ok)
    \/ \E i \in 1..Len(conns) : ServerboundTask(i)
    \/ \E i \in 1..Len(conns) : DropCancelled(i)

\* The transport's background tasks and the peers: the same in every specification.
Background == Peers \/ Listener \/ Tasks

\* What WebSocketServerSocket::split hands to the Io: no close callback.
WsCloseFn == {"None"}

\* Traffic through the facade: send and recv calls against one peer.
InitTraffic == InitIo({"Connected"}, WsCloseFn, TrafficCalls, TrafficConns, TrafficFrames)
NextTraffic ==
    \/ \E p \in SendPayloads, a \in Addrs : IoSend(p, a)
    \/ IoRecv
    \/ Background
SpecTraffic == InitTraffic /\ [][NextTraffic]_vars

\* Sends against two peers.
InitPeers == InitIo({"Connected"}, WsCloseFn, PeersCalls, PeersConns, PeersFrames)
NextPeers ==
    \/ \E p \in SendPayloads, a \in Addrs : IoSend(p, a)
    \/ IoRecv
    \/ Background
SpecPeers == InitPeers /\ [][NextPeers]_vars

\* Closing the facade, with and without a close callback, and calls after it.
InitClose ==
    InitIo({"Connecting", "Connected"}, {"None", "SomeOk", "SomeErr"},
           CloseCalls, CloseConns, CloseFrames)
NextClose ==
    \/ IoClose
    \/ \E p \in SendPayloads, a \in Addrs : IoSend(p, a)
    \/ IoRecv
    \/ Background
SpecClose == InitClose /\ [][NextClose]_vars

\* Traffic through the views that Io::split returns.
InitSplit == InitIo({"Connected"}, WsCloseFn, SplitCalls, SplitConns, SplitFrames)
NextSplit ==
    \/ \E p \in SendPayloads, a \in Addrs : SplitSend(p, a)
    \/ SplitRecv
    \/ Background
SpecSplit == InitSplit /\ [][NextSplit]_vars

\* Traffic through the facade with the diagnostics sampler running.
InitDiag == InitIo({"Connected"}, WsCloseFn, DiagCalls, DiagConns, DiagFrames)
NextDiag ==
    \/ \E d \in {0, 1} : UpdateDiagnostics(d)
    \/ \E p \in SendPayloads, a \in Addrs : IoSend(p, a)
    \/ IoRecv
    \/ Background
SpecDiag == InitDiag /\ [][NextDiag]_vars

\* The inbound path: a peer whose bytes may fail to parse as a frame (the
\* stream yields an error) and who keeps sending afterwards.
InitInbound == InitIo({"Connected"}, WsCloseFn, InboundCalls, InboundConns, InboundFrames)
NextInbound ==
    \/ IoRecv
    \/ \E p \in SendPayloads, a \in Addrs : IoSend(p, a)
    \/ \E i \in 1..Len(conns) : PeerSend(i, ReadErr)
    \/ Background
SpecInbound == InitInbound /\ [][NextInbound]_vars

\* The map's lock taken and released in steps of their own: sends of the
\* consumer against the listener's insert and remove.
InitLock == InitIo({"Connected"}, WsCloseFn, LockCalls, LockConns, LockFrames)
NextLock ==
    \/ SendLock
    \/ \E p \in SendPayloads, a \in Addrs : SendLocked(p, a)
    \/ ListenerLock
    \/ ListenerInsertLocked
    \/ ListenerRemoveLocked
    \/ \E ok \in BOOLEAN : ListenerAccept(ok)
    \/ \E ok \in BOOLEAN : ListenerHandshake(ok)
    \/ ListenerSpawn
    \/ ListenerRace
    \/ Peers
    \/ Tasks
SpecLock == InitLock /\ [][NextLock]_vars

\* The executor runs every task that can take a step: the listener resumes
\* when a connection waits in its backlog or its await completes, a per-peer
\* task resumes when its channel or socket has something for it, and a
\* cancelled task's future is dropped.  What the peers and the consumer do,
\* and whether accept fails, is not the executor's to decide.
TaskStep(i) ==
    /\ i \in 1..Len(conns)
    /\ \/ \E ok \in BOOLEAN : ClientboundTask(i, ok)
       \/ ServerboundTask(i)
       \/ DropCancelled(i)

Fairness(nconns) ==
    /\ WF_vars(ListenerAccept(TRUE))
    /\ WF_vars(\E ok \in BOOLEAN : ListenerHandshake(ok))
    /\ WF_vars(ListenerInsert)
    /\ WF_vars(ListenerSpawn)
    /\ WF_vars(ListenerRace)
    /\ WF_vars(ListenerRemove)
    /\ \A i \in 1..nconns : WF_vars(TaskStep(i))

FairSpecPeers == SpecPeers /\ Fairness(PeersConns)
FairSpecInbound == SpecInbound /\ Fairness(InboundConns)

\* Closing an Io built from the WebSocket server transport.
InitWsClose == InitIo({"Connected"}, WsCloseFn, CloseCalls, CloseConns, CloseFrames)
FairSpecWsClose == InitWsClose /\ [][NextClose]_vars /\ Fairness(CloseConns)

\* ---------------------------------------------------------------- properties
\* The consumer has just made a call of kind op (in the step observed).
Called(op) == nCalls' = nCalls + 1 /\ ret'.op = op

\* C1: through the facade, packets_sent is the number of send calls and
\* bytes_sent the sum of their payload lengths; packets_received is the
\* number of recv calls that returned a packet and bytes_received the sum of
\* the lengths of the packets returned.
C1_StatsCountFacadeCalls ==
    /\ stats.packets_sent = hist.sends
    /\ stats.bytes_sent = hist.bytes_sent
    /\ stats.packets_received = hist.recvs
    /\ stats.bytes_received = hist.bytes_received

\* two sends of different lengths and a recv that returned a packet
C1_Witness ==
    /\ hist.sends = 2
    /\ hist.bytes_sent = 1 + MTU
    /\ hist.recvs = 1
    /\ hist.bytes_received = 1

\* C2: the stats count the traffic made through the views Io::split returns.
C2_StatsCountViewCalls ==
    /\ stats.packets_sent = hist.view_sends
    /\ stats.bytes_sent = hist.view_bytes_sent
    /\ stats.packets_received = hist.view_recvs
    /\ stats.bytes_received = hist.view_bytes_received

\* C3 as stated: a send to an address absent from the map returns Ok and
\* changes nothing, the stats included.
C3_AbsentSendChangesNothing ==
    [][(Called("send") /\ ret'.addr \notin DOMAIN addr_to_clientbound_tx)
        => /\ ret'.res = "Ok"
           /\ UNCHANGED <<state, close_fn, stats, buffer, addr_to_clientbound_tx,
                          serverbound_rx, listener, conns, diagnostics>>]_vars

\* C3 amended: a send to an address absent from the map returns Ok, enqueues
\* nothing on any channel, leaves the map and all other state alone, and
\* changes only what Io::send counts: packets_sent by one, bytes_sent by the
\* payload's length.
C3_AbsentSendOnlyCounted ==
    [][(Called("send") /\ ret'.addr \notin DOMAIN addr_to_clientbound_tx)
        => /\ ret'.res = "Ok"
           /\ stats' = [stats EXCEPT !.packets_sent = @ + 1,
                                     !.bytes_sent = @ + Len(ret'.data)]
           /\ UNCHANGED <<state, close_fn, buffer, addr_to_clientbound_tx,
                          serverbound_rx, listener, conns, diagnostics>>]_vars

\* a send to an absent address has returned Ok while another peer has a channel
C3_Witness ==
    /\ ret.op = "send"
    /\ ret.res = "Ok"
    /\ ret.addr \notin DOMAIN addr_to_clientbound_tx
    /\ \E a \in DOMAIN addr_to_clientbound_tx :
           conns[addr_to_clientbound_tx[a]].clientbound_handle = "running"
    /\ \A i \in 1..Len(conns) : conns[i].addr # ret.addr

\* C5: after Io::close, every further Io::send and Io::recv returns an error.
\* (state is Disconnected only once close has been called, and ret is the
\* result of the consumer's latest call.)
C5_CallsAfterCloseFail ==
    (state = "Disconnected" /\ ret.op \in {"send", "recv"}) => ret.res = "Err"

\* C6: over any number of close calls the close callback is invoked at most
\* once, exactly once if one was supplied (also when it returned an error);
\* after the first call the state is Disconnected; every later call returns
\* Ok and changes nothing.
C6_CloseIdempotent ==
    /\ [](/\ hist.close_fn_calls <= 1
          /\ hist.closes >= 1 =>
                /\ state = "Disconnected"
                /\ close_fn = "None"
                /\ hist.close_fn_calls = (IF hist.supplied = "None" THEN 0 ELSE 1))
    /\ [][(Called("close") /\ hist.closes >= 1)
            => /\ ret'.res = "Ok"
               /\ hist'.close_fn_calls = hist.close_fn_calls
               /\ UNCHANGED <<state, close_fn, stats, buffer, addr_to_clientbound_tx,
                              serverbound_rx, listener, conns, diagnostics>>]_vars

\* close has been called twice on an Io whose callback returned an error
C6_Witness ==
    /\ hist.closes = 2
    /\ hist.supplied = "SomeErr"
    /\ hist.close_fn_calls = 1
    /\ ret.op = "close"
    /\ ret.res = "Ok"

\* C9: a binary frame of n <= MTU bytes that peer P sent reaches the shared
\* inbound channel under P's address, and the recv that finds it at the front
\* of the channel returns Some with exactly those bytes and P's address and
\* adds 1 to packets_received and n to bytes_received.
C9_FrameReceived ==
    /\ [](\A k \in 1..Len(serverbound_rx) :
            \E i \in 1..Len(conns) :
                /\ conns[i].addr = serverbound_rx[k][1]
                /\ \E j \in 1..Len(conns[i].frames) : conns[i].frames[j] = serverbound_rx[k][2])
    /\ [][(/\ Called("recv")
           /\ serverbound_rx # << >>
           /\ Head(serverbound_rx)[2].kind = "Binary"
           /\ Len(Head(serverbound_rx)[2].data) <= MTU)
            => /\ ret'.res = "Some"
               /\ ret'.data = Head(serverbound_rx)[2].data
               /\ ret'.addr = Head(serverbound_rx)[1]
               /\ serverbound_rx' = Tail(serverbound_rx)
               /\ stats' = [stats EXCEPT
                      !.packets_received = @ + 1,
                      !.bytes_received = @ + Len(Head(serverbound_rx)[2].data)]]_vars

\* the second peer's one-byte frame has been returned by the first recv
C9_Witness ==
    /\ ret.op = "recv"
    /\ ret.res = "Some"
    /\ ret.data = Iota(1)
    /\ Len(conns) = 2
    /\ ret.addr = conns[2].addr
    /\ ret.addr # conns[1].addr
    /\ conns[2].frames = <<Binary(Iota(1))>>
    /\ stats.packets_received = 1
    /\ stats.bytes_received = 1

\* s is a prefix of t
IsPrefix(s, t) == Len(s) <= Len(t) /\ SubSeq(t, 1, Len(s)) = s

\* C10: what the outbound task has written to a peer's socket is, in order
\* and without repetition, a prefix of the messages that send calls enqueued
\* for that peer.
C10_OutboundFifo ==
    \A i \in 1..Len(conns) : IsPrefix(conns[i].write, conns[i].sent)

\* two different messages have been written to one peer's socket
C10_Witness ==
    \E i \in 1..Len(conns) :
        /\ Len(conns[i].write) = 2
        /\ conns[i].write[1] # conns[i].write[2]

\* Connections i and j are both there: opened by their peers and not closed.
BothOpen(i, j) ==
    /\ i \in 1..Len(conns) /\ j \in 1..Len(conns)
    /\ conns[i].stream = "open" /\ conns[j].stream = "open"

\* Connection i has its entry in the map.
HasEntry(i) ==
    /\ i \in 1..Len(conns)
    /\ conns[i].addr \in DOMAIN addr_to_clientbound_tx
    /\ addr_to_clientbound_tx[conns[i].addr] = i

\* C4: two peers that have connected both have a map entry at the same time
\* (unless one of them leaves or the listener has failed first).
C4_PeersServedTogether ==
    \A i, j \in 1..PeersConns :
        (i < j) =>
            ((BothOpen(i, j) /\ ListenerAlive)
                ~> ((HasEntry(i) /\ HasEntry(j)) \/ ~BothOpen(i, j) \/ ~ListenerAlive))

\* C7: after the owner has closed the Io of the server transport, the
\* listener task eventually ends, the map is emptied and every peer's tasks
\* have terminated.
C7_CloseStopsTasks ==
    (state = "Disconnected")
        ~> (/\ ~ListenerAlive
            /\ DOMAIN addr_to_clientbound_tx = {}
            /\ \A i \in 1..Len(conns) :
                   /\ ~FutureAlive(conns[i].clientbound_handle)
                   /\ ~FutureAlive(conns[i].serverbound_handle))

\* Address a had a connection and has none left.
Gone(a) ==
    /\ \E i \in 1..Len(conns) : conns[i].addr = a
    /\ \A i \in 1..Len(conns) : conns[i].addr = a => conns[i].stream = "closed"

\* C8: once peer A has disconnected, a send to A returns Ok, whether or not
\* A's map entry has been removed yet; a send to a peer B that is still there
\* and has its entry is enqueued on B's channel and returns Ok.
C8_SendAfterDisconnect ==
    [][Called("send") =>
        /\ Gone(ret'.addr) => ret'.res = "Ok"
        /\ \A i \in 1..Len(conns) :
             (/\ conns[i].addr = ret'.addr
              /\ conns[i].stream = "open"
              /\ HasEntry(i)
              /\ \E a \in Addrs : Gone(a))
                => /\ ret'.res = "Ok"
                   /\ conns'[i].clientbound_rx =
                          Append(conns[i].clientbound_rx, Binary(ret'.data))]_vars

\* The sample taken in the step observed recorded measurements.
Sampled == Called("update_diagnostics") /\ Len(diagnostics') = Len(diagnostics) + 1

\* All four rates of measurement m are zero.
ZeroRates(m) ==
    /\ m.bytes_in[1] = 0 /\ m.bytes_out[1] = 0
    /\ m.packets_in[1] = 0 /\ m.packets_out[1] = 0

\* C11: a sample with non-zero elapsed time resets the four counters to
\* zero, and a sample that follows an earlier one with no traffic in between
\* records a rate of zero on all four series.
C11_SampleResetsStats ==
    [][Sampled =>
        /\ stats' = IoStatsDefault
        /\ (Len(diagnostics) >= 1 /\ hist.sends = 0 /\ hist.recvs = 0)
              => ZeroRates(diagnostics'[Len(diagnostics')])]_vars

\* a sample that recorded traffic, followed at once by a sample that recorded none
C11_Witness ==
    /\ Len(diagnostics) = 2
    /\ diagnostics[1].packets_out[1] = 1
    /\ diagnostics[1].bytes_out[1] = MTU
    /\ ZeroRates(diagnostics[2])
    /\ stats = IoStatsDefault

\* C12: recv is a poll: the consumer can always take it, whatever the
\* background tasks are doing, and on an empty inbound channel that still has
\* a sender it returns Ok(None) and leaves everything as it was.
C12_RecvPolls ==
    /\ [](CanCall => ENABLED IoRecv)
    /\ [][(Called("recv") /\ serverbound_rx = << >> /\ ServerboundTxAlive)
            => /\ ret'.res = "None"
               /\ UNCHANGED <<state, close_fn, stats, buffer, addr_to_clientbound_tx,
                              serverbound_rx, listener, conns, diagnostics>>]_vars

\* recv has returned None while a frame of a connected peer was still on its
\* way through the inbound task
C12_Witness ==
    /\ ret.op = "recv"
    /\ ret.res = "None"
    /\ serverbound_rx = << >>
    /\ stats.packets_received = 0
    /\ \E i \in 1..Len(conns) :
        /\ conns[i].serverbound_handle = "running"
        /\ conns[i].read # << >>

\* A background task of connection i is alive.
TaskAlive(i) ==
    /\ i \in 1..Len(conns)
    /\ \/ conns[i].clientbound_handle = "running"
       \/ conns[i].serverbound_handle = "running"

\* C13: the map has an entry for a peer exactly when a background task of
\* that peer's connection is alive, and an entry is removed only once both
\* tasks of the connection have terminated.  (The states in which the
\* listener is between inserting the entry and spawning the tasks, or between
\* the end of the race and removing the entry, are not held against the claim.)
C13_EntryIffTaskAlive ==
    /\ [](listener.pc \notin {"spawn", "remove"} =>
            \A a \in Addrs :
                a \in DOMAIN addr_to_clientbound_tx
                    <=> \E i \in 1..Len(conns) : conns[i].addr = a /\ TaskAlive(i))
    /\ [][\A a \in DOMAIN addr_to_clientbound_tx :
            a \notin DOMAIN addr_to_clientbound_tx'
                => ~TaskAlive(addr_to_clientbound_tx[a])]_vars

\* One of connection i's two tasks has ended, for whatever reason.
TaskEnded(i) ==
    /\ i \in 1..Len(conns)
    /\ \/ conns[i].clientbound_handle \in {"done", "panicked"}
       \/ conns[i].serverbound_handle = "done"

\* C14: once either task of a peer has ended (the peer closed the socket, a
\* read error, a write error in the outbound task), the other task is torn
\* down and the peer's entry is eventually removed from the map.
C14_NoStaleEntries ==
    \A i \in 1..PeersConns :
        TaskEnded(i) ~> (~HasEntry(i) /\ ~TaskAlive(i))

\* C15: the inbound task terminates once reading from the peer's socket has
\* yielded end-of-stream or an error, and after a read error it pushes no
\* further frame onto the shared inbound channel.
C15_InboundTaskEnds ==
    /\ \A i \in 1..InboundConns :
        (/\ i \in 1..Len(conns)
         /\ conns[i].serverbound_handle = "running"
         /\ conns[i].ended \/ (conns[i].read = << >> /\ conns[i].stream = "closed"))
            ~> (i \in 1..Len(conns) /\ conns[i].serverbound_handle # "running")
    /\ [][\A i \in 1..Len(conns) :
            conns[i].ended =>
                \/ conns'[i].read = conns[i].read
                \/ Len(serverbound_rx') <= Len(serverbound_rx)]_vars

\* the inbound task has ended after a read error, leaving a later frame unread
C15_Witness ==
    \E i \in 1..Len(conns) :
        /\ conns[i].ended
        /\ conns[i].serverbound_handle = "done"
        /\ conns[i].stream = "open"
        /\ conns[i].read # << >>
        /\ serverbound_rx = << >>

\* C16: every frame on the shared inbound channel is consumed by exactly one
\* recv call and each recv call consumes at most one frame, the one at the
\* front: a binary frame is returned as Some with its bytes and its source
\* address, a Close or other non-binary frame is consumed and reported as
\* None, and the frames queued behind the consumed one stay in their order.
C16_OneFramePerRecv ==
    /\ [][serverbound_rx' # serverbound_rx =>
            \/ Called("recv") /\ serverbound_rx' = Tail(serverbound_rx)
            \/ \E x \in Addrs \X PeerFrames : serverbound_rx' = Append(serverbound_rx, x)]_vars
    /\ [][(Called("recv") /\ serverbound_rx # << >>) =>
            /\ serverbound_rx' = Tail(serverbound_rx)
            /\ IF Head(serverbound_rx)[2].kind = "Binary"
               THEN /\ ret'.res = "Some"
                    /\ ret'.data = Head(serverbound_rx)[2].data
                    /\ ret'.addr = Head(serverbound_rx)[1]
               ELSE ret'.res = "None"]_vars

\* C17: recv returns a Result for every frame a peer can send: it never
\* panics, whatever the length of a binary frame, and a slice it returns is
\* never longer than MTU.
C17_RecvNeverPanics ==
    ret.op = "recv" =>
        /\ ret.res \in {"Some", "None", "Err"}
        /\ Len(ret.data) <= MTU

\* C18: a send to an address that is in the map but whose outbound channel
\* is closed returns an error, which Io::send hands to the caller unchanged;
\* recv on an empty inbound channel returns an error when the channel is
\* disconnected and None otherwise; a send to an absent address, and every
\* send onto an open channel, returns Ok.
C18_ChannelClosedSurfaced ==
    [][/\ Called("send") =>
            ret'.res = IF /\ ret'.addr \in DOMAIN addr_to_clientbound_tx
                          /\ ~RxAlive(addr_to_clientbound_tx[ret'.addr])
                       THEN "Err" ELSE "Ok"
       /\ (Called("recv") /\ serverbound_rx = << >>) =>
            ret'.res = IF ServerboundTxAlive THEN "None" ELSE "Err"]_vars

\* a send to a peer whose entry is still in the map, but whose outbound
\* channel lost its receiving end, has returned an error
C18_Witness ==
    /\ ret.op = "send"
    /\ ret.res = "Err"
    /\ ret.addr \in DOMAIN addr_to_clientbound_tx
    /\ ~RxAlive(addr_to_clientbound_tx[ret.addr])
    /\ stats.packets_sent >= 1

\* Position of an IoState along Connecting -> Connected -> Disconnected.
Rank(s) == CASE s = "Connecting" -> 0 [] s = "Connected" -> 1 [] s = "Disconnected" -> 2

\* C19: the connection state only moves forward along Connecting -> Connected
\* -> Disconnected, Disconnected is terminal, and no call of the consumer
\* (send, recv, split, stats, close) changes the state directly.
C19_StateEventDriven ==
    /\ [][Rank(state') >= Rank(state)]_vars
    /\ [][state = "Disconnected" => state' = "Disconnected"]_vars
    /\ [][state' # state => nCalls' = nCalls]_vars

\* C19 (amended): the connection state only moves forward along Connecting ->
\* Connected -> Disconnected and Disconnected is terminal; send, recv and the
\* background tasks never change it; the one transition the facade makes is
\* the direct assignment to Disconnected by the caller's Io::close.
C19_StateForwardOnly ==
    /\ [][Rank(state') >= Rank(state)]_vars
    /\ [][state = "Disconnected" => state' = "Disconnected"]_vars
    /\ [][state' # state => Called("close") /\ state' = "Disconnected"]_vars

\* an Io that started with a close callback has been closed once, and a later
\* send or recv has left it Disconnected
C19_Witness ==
    /\ state = "Disconnected"
    /\ hist.closes = 1
    /\ hist.supplied # "None"
    /\ ret.op \in {"send", "recv"}
    /\ nCalls >= 2

\* C20: the lock of the address-to-outbound-channel map is held only for one
\* insert or one remove by the listener or one lookup-and-enqueue by the
\* consumer: whoever holds it is at the statement that uses the map, never
\* suspended in accept, handshake, the race over the tasks, a socket read or
\* write or a channel receive; the per-peer tasks never hold it; the holder's
\* next step is always possible and releases the lock, so no send waits for
\* an I/O operation and no deadlock on the lock is reachable.
C20_LockHeldBriefly ==
    /\ [](/\ mutex \in {"none", "listener", "consumer"}
          /\ mutex = "listener" =>
                /\ listener.pc \in {"insert", "remove"}
                /\ ENABLED (ListenerInsertLocked \/ ListenerRemoveLocked)
          /\ mutex = "consumer" =>
                \A p \in SendPayloads, a \in Addrs : ENABLED SendLocked(p, a))
    /\ [][/\ mutex = "listener" =>
                \/ mutex' = "none" /\ listener'.pc \in {"spawn", "accept"}
                \/ mutex' = mutex /\ listener' = listener
          /\ mutex = "consumer" =>
                \/ mutex' = "none" /\ Called("send")
                \/ mutex' = mutex /\ nCalls' = nCalls]_vars

\* the listener holds the lock for the remove after the consumer's earlier
\* send, and the consumer has a further send to make
C20_Witness ==
    /\ mutex = "listener"
    /\ listener.pc = "remove"
    /\ ret.op = "send"
    /\ nCalls < budget.calls

\* C21: a diagnostics sample taken with zero elapsed time is a no-op: it
\* records no measurement on any of the four series and leaves the four
\* IoStats counters as they were, so that the next sample with elapsed time
\* measures the traffic counted so far.
C21_ZeroDeltaSampleNoOp ==
    /\ [][(Called("update_diagnostics") /\ ret'.data = <<0>>) =>
            /\ diagnostics' = diagnostics
            /\ stats' = stats]_vars
    /\ [][Sampled =>
            LET m == diagnostics'[Len(diagnostics')] IN
            /\ m.bytes_in[1] = stats.bytes_received
            /\ m.bytes_out[1] = stats.bytes_sent
            /\ m.packets_in[1] = stats.packets_received
            /\ m.packets_out[1] = stats.packets_sent
            /\ m.packets_out[2] # 0]_vars

\* a sample with zero elapsed time has been taken after one send: nothing is
\* recorded and the send is still counted
C21_Witness ==
    /\ ret.op = "update_diagnostics"
    /\ ret.data = <<0>>
    /\ diagnostics = << >>
    /\ stats.packets_sent = 1
    /\ stats.bytes_sent = MTU

\* C22: the listener serves peers one at a time: the map holds at most one
\* entry, at most one connection has a task alive, and a connection has an
\* entry only once no task of any connection accepted before it is alive and
\* no earlier connection still has its entry.
C22_OnePeerAtATime ==
    /\ Cardinality(DOMAIN addr_to_clientbound_tx) <= 1
    /\ \A i, j \in 1..Len(conns) : (TaskAlive(i) /\ TaskAlive(j)) => i = j
    /\ \A i, j \in 1..Len(conns) :
        (i < j /\ HasEntry(j)) => (~TaskAlive(i) /\ ~HasEntry(i))

\* two peers are connected at the same time: the first is being served, the
\* second waits, not accepted and without an entry
C22_Witness ==
    /\ Len(conns) = 2
    /\ BothOpen(1, 2)
    /\ HasEntry(1)
    /\ conns[1].clientbound_handle = "running"
    /\ conns[1].serverbound_handle = "running"
    /\ listener.pc = "race"
    /\ listener.id = 1
    /\ ~HasEntry(2)
    /\ conns[2].addr \notin DOMAIN addr_to_clientbound_tx

\* C23: a failed upgrade handshake ends the listener task for good: the
\* handshake step either succeeds or leaves the listener panicked, and from
\* then on the listener accepts no connection, the map is never modified
\* again, and every send to an address that is not in the map returns Ok
\* without reaching any connection; the Io built before stays usable, the
\* consumer's calls are still possible.
C23_HandshakeFailureEndsListener ==
    /\ [][(listener.pc = "handshake" /\ listener' # listener) =>
            \/ listener'.pc = "insert"
            \/ listener'.pc = "panicked"]_vars
    /\ [][listener.pc = "panicked" =>
            /\ listener' = listener
            /\ addr_to_clientbound_tx' = addr_to_clientbound_tx
            /\ (Called("send") /\ ret'.addr \notin DOMAIN addr_to_clientbound_tx) =>
                    /\ ret'.res = "Ok"
                    /\ conns' = conns]_vars
    /\ []((listener.pc = "panicked" /\ CanCall) =>
            \A p \in SendPayloads, a \in Addrs : ENABLED IoSend(p, a))

\* the first peer's handshake failed; a second peer has connected since and
\* is never accepted, and a send to it has returned Ok
C23_Witness ==
    /\ listener.pc = "panicked"
    /\ listener.id = 1
    /\ conns[1].clientbound_handle = "none"
    /\ addr_to_clientbound_tx = [a \in {} |-> 0]
    /\ Len(conns) = 2
    /\ conns[2].stream = "open"
    /\ listener.accepted = 1
    /\ ret.op = "send"
    /\ ret.res = "Ok"
    /\ ret.addr = conns[2].addr
    /\ conns[2].clientbound_rx = << >>

====
